---- MODULE Spec2Model ----
(***************************************************************************)
(* Model of the Algorithmic-Trading-Framework:                             *)
(*   examples/simple_backtest.py  SimpleBacktester (the ledger) and        *)
(*                                run_sma_crossover_backtest (the driver)  *)
(*   strategies/base_strategy.py  BaseStrategy                             *)
(*   strategies/mean_reversion.py MeanReversionStrategy                    *)
(*                                                                         *)
(* Numbers.  The code computes in floats; the model computes in exact      *)
(* fixed point.  Money of the backtester is counted in 1/MoneyScale of a   *)
(* currency unit, so that a commission given in 1/MoneyScale (0.001 is 1)  *)
(* of an integer notional is an integer.  Prices and share counts are      *)
(* integers.  Ratios (RSI, returns, drawdown, win rate) are kept as        *)
(* records [num, den] and compared by cross multiplication or, where the   *)
(* products would leave 32 bits, by FracLess.                              *)
(***************************************************************************)
EXTENDS Integers, Sequences, FiniteSets, TLC

VARIABLES
    pc,               \* which object is being driven: "calls", "loop", "done", "strategy"
    initial_capital,  \* SimpleBacktester.initial_capital
    commission,       \* SimpleBacktester.commission, in 1/MoneyScale
    capital,          \* SimpleBacktester.capital
    position,         \* SimpleBacktester.position (shares held)
    trades,           \* SimpleBacktester.trades
    equity_curve,     \* SimpleBacktester.equity_curve
    call,             \* the last execute_trade / on_data call: arguments, state before and after
    data,             \* run_sma_crossover_backtest: the 'close' column of the DataFrame
    fast_period,      \* run_sma_crossover_backtest argument
    slow_period,      \* run_sma_crossover_backtest argument
    idx,              \* the row the loop is at / the timestamp of the next direct call
    results,          \* the dictionary run_sma_crossover_backtest returns
    replay,           \* the dictionary the previous run over the same data returned
    current_capital,  \* BaseStrategy.current_capital
    s_position,       \* BaseStrategy.position, in 1/ShareScale of a share
    s_trades,         \* BaseStrategy.trades
    price_history,    \* MeanReversionStrategy.price_history
    entry_price       \* MeanReversionStrategy.entry_price

bt_vars == <<initial_capital, commission, capital, position, trades, equity_curve>>
run_vars == <<data, fast_period, slow_period, results, replay>>
strat_vars == <<current_capital, s_position, s_trades, price_history, entry_price>>
vars == <<pc, bt_vars, call, run_vars, idx, strat_vars>>

----------------------------------------------------------------------------
(* Units and bounds *)

MoneyScale == 1000

\* bounds of the direct-call harness of SimpleBacktester
MaxCalls == 3

\* bounds of the driver's input
MaxBars == 5

\* bounds of the strategy's input
MaxStratBars == 5

InitialCapitals == {0, 3 * MoneyScale, 10 * MoneyScale}
Commissions == {0, 1, MoneyScale}
Prices == {0, 1, 2}
ShareCounts == {0 - 2, 0 - 1, 0, 1, 2}

Abs(x) == IF x < 0 THEN 0 - x ELSE x

Last(s) == s[Len(s)]

----------------------------------------------------------------------------
(* SimpleBacktester *)

NoCall == [op |-> "none"]

\* __init__ / reset: the state of a fresh backtester
reset(ic) == [capital |-> ic, position |-> 0, trades |-> <<>>, equity_curve |-> <<>>]

\* cost = abs(shares * price)
Cost(price, shares) == Abs(shares * price) * MoneyScale

\* commission_cost = cost * self.commission
CommissionCost(cost, comm) == (cost * comm) \div MoneyScale

\* a buy charged the notional only, the commission forgotten
TotalCostNoCommission(cost, commission_cost) == cost

\* total_cost = cost + commission_cost
TotalCost(cost, commission_cost) == cost + commission_cost

\* the commission added to the proceeds instead of taken from them
ProceedsPlusCommission(cost, commission_cost) == cost + commission_cost

\* proceeds = cost - commission_cost
Proceeds(cost, commission_cost) == cost - commission_cost

\* the solvency check left out
CanBuyUnchecked(total_cost, cap) == TRUE

\* if total_cost <= self.capital
CanBuy(total_cost, cap) == total_cost <= cap

\* the inventory check left out
CanSellUnchecked(shares_to_sell, pos) == TRUE

\* the inventory check off by one share
CanSellOffByOne(shares_to_sell, pos) == shares_to_sell <= pos + 1

\* if shares_to_sell <= self.position
CanSell(shares_to_sell, pos) == shares_to_sell <= pos

\* execute_trade on the account acct = [capital, position, trades]
execute_trade(acct, comm, price, shares, timestamp) ==
    LET cost == Cost(price, shares)
        commission_cost == CommissionCost(cost, comm)
    IN  IF shares > 0
        THEN LET total_cost == TotalCost(cost, commission_cost)
             IN  IF CanBuy(total_cost, acct.capital)
                 THEN [capital |-> acct.capital - total_cost,
                       position |-> acct.position + shares,
                       trades |-> Append(acct.trades,
                                    [timestamp |-> timestamp, type |-> "BUY",
                                     price |-> price, shares |-> shares,
                                     cost |-> total_cost])]
                 ELSE acct
        ELSE LET shares_to_sell == Abs(shares)
             IN  IF CanSell(shares_to_sell, acct.position)
                 THEN LET proceeds == Proceeds(cost, commission_cost)
                      IN  [capital |-> acct.capital + proceeds,
                           position |-> acct.position - shares_to_sell,
                           trades |-> Append(acct.trades,
                                        [timestamp |-> timestamp, type |-> "SELL",
                                         price |-> price, shares |-> shares_to_sell,
                                         proceeds |-> proceeds])]
                 ELSE acct

\* get_portfolio_value
get_portfolio_value(cap, pos, current_price) == cap + (pos * current_price) * MoneyScale

Account == [capital |-> capital, position |-> position, trades |-> trades]

Snapshot(acct, curve) ==
    [capital |-> acct.capital, position |-> acct.position,
     trades |-> acct.trades, equity_curve |-> curve]

CallRecord(price, shares, timestamp, before, after, curve) ==
    [op |-> "execute_trade", price |-> price, shares |-> shares,
     timestamp |-> timestamp,
     pre |-> Snapshot(before, curve), post |-> Snapshot(after, curve)]

----------------------------------------------------------------------------
(* Ratios *)

Frac(n, d) == [num |-> n, den |-> d]

\* a < b for ratios with positive denominators, by the Euclidean expansion
\* (no product is formed, so 32-bit integers suffice)
RECURSIVE FracLess(_, _)
FracLess(a, b) ==
    LET qa == a.num \div a.den
        ra == a.num % a.den
        qb == b.num \div b.den
        rb == b.num % b.den
    IN  IF qa # qb THEN qa < qb
        ELSE IF rb = 0 THEN FALSE
        ELSE IF ra = 0 THEN TRUE
        ELSE FracLess(Frac(b.den, rb), Frac(a.den, ra))

----------------------------------------------------------------------------
(* run_sma_crossover_backtest *)

\* SimpleBacktester(initial_capital=10000, commission=0.001)
RunInitialCapital == 10000
RunCommission == 1

\* closes around half the initial capital, so that a buy of zero shares occurs
Closes == {1000, 2000, 4000, 6000}
PeriodPairs == {<<1, 2>>, <<2, 3>>}
BarSeqs == UNION {[1..n -> Closes] : n \in 1..MaxBars}

NoResults == [returned |-> FALSE]

RECURSIVE SumRange(_, _, _)
SumRange(prices, lo, hi) ==
    IF lo > hi THEN 0 ELSE prices[hi] + SumRange(prices, lo, hi - 1)

\* calculate_sma: prices.rolling(window=period).mean() is NaN before row `period`
SmaDefined(period, i) == i >= period
SmaSum(prices, period, i) == SumRange(prices, i - period + 1, i)

\* data['signal']: 1 where sma_fast > sma_slow, -1 where sma_fast < sma_slow, else 0
\* (a comparison with NaN is false); the means are compared as sum/period
Signal(prices, fast, slow, i) ==
    IF ~(SmaDefined(fast, i) /\ SmaDefined(slow, i)) THEN 0
    ELSE LET f == SmaSum(prices, fast, i) * slow
             s == SmaSum(prices, slow, i) * fast
         IN  IF f > s THEN 1 ELSE IF f < s THEN 0 - 1 ELSE 0

\* data['position'] = data['signal'].diff(): NaN on the first row
DiffDefined(i) == i > 1
SignalDiff(prices, fast, slow, i) ==
    Signal(prices, fast, slow, i) - Signal(prices, fast, slow, i - 1)

\* the whole capital committed instead of half of it
SharesToBuyAllIn(cap, close) == cap \div (MoneyScale * close)

\* shares_to_buy = (backtester.capital * 0.5) // row['close']
SharesToBuy(cap, close) == cap \div (2 * MoneyScale * close)

\* the order the loop body submits on row i, as <<submitted, shares>>
OrderOnBar(acct, prices, fast, slow, i) ==
    LET close == prices[i]
        d == SignalDiff(prices, fast, slow, i)
    IN  IF DiffDefined(i) /\ d # 0
        THEN IF d > 0
             THEN LET shares_to_buy == SharesToBuy(acct.capital, close)
                  IN  IF shares_to_buy > 0 THEN <<TRUE, shares_to_buy>>
                      ELSE <<FALSE, 0>>
             ELSE IF acct.position > 0 THEN <<TRUE, 0 - acct.position>>
                  ELSE <<FALSE, 0>>
        ELSE <<FALSE, 0>>

\* the point appended to equity_curve for row i
EquityPoint(acct, close, i) ==
    [timestamp |-> i, value |-> get_portfolio_value(acct.capital, acct.position, close)]

\* equity tracked only on the rows that hold a position
TrackEquityWhenInvested(curve, acct, close, i) ==
    IF acct.position = 0 THEN curve ELSE Append(curve, EquityPoint(acct, close, i))

\* backtester.equity_curve.append({'timestamp': idx, 'value': portfolio_value})
TrackEquity(curve, acct, close, i) == Append(curve, EquityPoint(acct, close, i))

\* the peak never updated: the first value taken as the running maximum
RunningMaxFirst(curve, i) == curve[1].value

\* running_max = equity_curve_df['value'].expanding().max()
RECURSIVE RunningMax(_, _)
RunningMax(curve, i) ==
    IF i = 1 THEN curve[1].value
    ELSE LET m == RunningMax(curve, i - 1)
         IN  IF curve[i].value > m THEN curve[i].value ELSE m

\* drawdown = (value - running_max) / running_max
Drawdown(curve, i) ==
    LET m == RunningMax(curve, i) IN Frac(curve[i].value - m, m)

\* max_drawdown = drawdown.min()
RECURSIVE MinDrawdown(_, _)
MinDrawdown(curve, i) ==
    IF i = 1 THEN Drawdown(curve, 1)
    ELSE LET m == MinDrawdown(curve, i - 1)
             d == Drawdown(curve, i)
         IN  IF FracLess(d, m) THEN d ELSE m

\* t.get('proceeds', 0) > t.get('cost', float('inf'))
ProceedsExceedCost(t) ==
    LET proceeds == IF "proceeds" \in DOMAIN t THEN t.proceeds ELSE 0
    IN  IF "cost" \in DOMAIN t THEN proceeds > t.cost ELSE FALSE

\* winning_trades, total_trades, win_rate
WinRate(trs) ==
    LET winning_trades ==
            Cardinality({k \in 1..Len(trs) :
                            trs[k].type = "SELL" /\ ProceedsExceedCost(trs[k])})
        total_trades == Cardinality({k \in 1..Len(trs) : trs[k].type = "SELL"})
    IN  IF total_trades > 0 THEN Frac(winning_trades, total_trades) ELSE Frac(0, 1)

\* the performance metrics and the returned dictionary
Metrics(ic, trs, curve) ==
    LET final_value == Last(curve).value
    IN  [returned |-> TRUE,
         initial_capital |-> ic,
         final_value |-> final_value,
         total_return |-> Frac(final_value - ic, ic),
         max_drawdown |-> MinDrawdown(curve, Len(curve)),
         total_trades |-> Len(trs),
         win_rate |-> WinRate(trs),
         equity_curve |-> curve,
         trades |-> trs]

----------------------------------------------------------------------------
(* BaseStrategy and MeanReversionStrategy *)

\* self.entry_price = None
None == 0 - 1

\* Python truth of an Optional[float]: neither None nor 0
Truthy(x) == x # None /\ x # 0

\* constructor defaults of MeanReversionStrategy
rsi_oversold == 30
rsi_overbought == 70
\* the period the model runs the strategy with (the constructor's default is 14)
RsiPeriod == 2

\* calculate_position_size(risk_per_trade=0.02); a share is ShareScale units
RiskPerTradePct == 2
ShareScale == 10000

\* closes the strategy is fed; 0 is a malformed bar, which on_data does not refuse
StratCloses == {0, 90, 96, 100, 200}
StratCapitals == {100, 5000}

\* sizes of direct buy and sell calls: one and two shares
Sizes == {ShareScale, 2 * ShareScale}

\* BaseStrategy.__init__ and MeanReversionStrategy.__init__
StrategyInit ==
    [position |-> 0, trades |-> <<>>, current_capital |-> 0,
     price_history |-> <<>>, entry_price |-> None]

\* BaseStrategy.buy
buy(pos, size) == pos + size

\* BaseStrategy.sell; size None closes the entire position
sell(pos, size) == LET sz == IF size = None THEN pos ELSE size IN pos - sz

\* BaseStrategy.calculate_position_size: risk_amount / 100
calculate_position_size(cap) ==
    LET risk_amount == (cap * RiskPerTradePct * ShareScale) \div 100
    IN  risk_amount \div 100

\* gains and losses over the last period+1 prices
RECURSIVE SumGains(_, _, _)
SumGains(h, lo, hi) ==
    IF lo >= hi THEN 0
    ELSE LET delta == h[hi] - h[hi - 1]
         IN  (IF delta > 0 THEN delta ELSE 0) + SumGains(h, lo, hi - 1)

RECURSIVE SumLosses(_, _, _)
SumLosses(h, lo, hi) ==
    IF lo >= hi THEN 0
    ELSE LET delta == h[hi] - h[hi - 1]
         IN  (IF delta < 0 THEN 0 - delta ELSE 0) + SumLosses(h, lo, hi - 1)

\* _calculate_rsi over the first n prices of h: 100 - 100 / (1 + avg_gain / avg_loss),
\* that is 100 * gain / (gain + loss); 100 when avg_loss == 0
RsiAt(h, period, n) ==
    LET first == IF n - period < 1 THEN 1 ELSE n - period   \* the slice [-(period+1):]
        gain == SumGains(h, first, n)
        loss == SumLosses(h, first, n)
    IN  IF loss = 0 THEN Frac(100, 1) ELSE Frac(100 * gain, gain + loss)

calculate_rsi(h, period) == RsiAt(h, period, Len(h))

\* rsi < threshold, rsi > threshold
RsiBelow(rsi, threshold) == rsi.num < threshold * rsi.den
RsiAbove(rsi, threshold) == rsi.num > threshold * rsi.den

\* the stop placed at the entry price itself
StopLossAtEntry(close_price, entry) == close_price < entry

\* close_price < self.entry_price * 0.95
StopLossHit(close_price, entry) == 100 * close_price < 95 * entry

\* _record_trade, called with the strategy state st it finds
record_trade(st, exit_price) ==
    IF Truthy(st.entry_price)
    THEN LET pnl == (exit_price - st.entry_price) * st.position
             return_pct == Frac(exit_price - st.entry_price, st.entry_price)
         IN  [st EXCEPT !.trades =
                 Append(@, [class |-> "dict", pnl |-> pnl, return |-> return_pct,
                            entry |-> st.entry_price, exit |-> exit_price])]
    ELSE st

\* the exit sequence: self.sell(price=close_price); self._record_trade(close_price);
\* self.entry_price = None
ExitLong(st, close_price) ==
    LET sold == [st EXCEPT !.position = sell(st.position, None)]
        recorded == record_trade(sold, close_price)
    IN  [recorded EXCEPT !.entry_price = None]

\* the history check one bar short
InsufficientHistoryOffByOne(h, period) == Len(h) < period

\* if len(self.price_history) < self.rsi_period + 1
InsufficientHistory(h, period) == Len(h) < period + 1

\* MeanReversionStrategy.on_data
on_data(st, period, close_price) ==
    LET st1 == [st EXCEPT !.price_history = Append(@, close_price)]
    IN  IF InsufficientHistory(st1.price_history, period) THEN st1
        ELSE LET rsi == calculate_rsi(st1.price_history, period)
             IN  IF st1.position = 0
                 THEN IF RsiBelow(rsi, rsi_oversold)
                      THEN LET size == calculate_position_size(st1.current_capital)
                           IN  [st1 EXCEPT !.position = buy(@, size),
                                           !.entry_price = close_price]
                      ELSE st1
                 ELSE IF st1.position > 0
                 THEN IF RsiAbove(rsi, rsi_overbought)
                      THEN ExitLong(st1, close_price)
                      ELSE IF Truthy(st1.entry_price)
                              /\ StopLossHit(close_price, st1.entry_price)
                      THEN ExitLong(st1, close_price)
                      ELSE st1
                 ELSE st1

\* t.pnl: attribute access, which a Trade object has and a dict has not
HasAttrPnl(t) == t.class = "Trade"

RECURSIVE SumPnl(_, _)
SumPnl(trs, ks) ==
    IF ks = {} THEN 0
    ELSE LET k == CHOOSE x \in ks : TRUE IN trs[k].pnl + SumPnl(trs, ks \ {k})

\* BaseStrategy.get_metrics over self.trades; the outcome is the returned dictionary or
\* the AttributeError of the first t.pnl on a dict (ratios are kept unrounded)
get_metrics(trs) ==
    IF trs = <<>> THEN [outcome |-> "returned", metrics |-> [total_trades |-> 0]]
    ELSE IF \E k \in 1..Len(trs) : ~HasAttrPnl(trs[k])
    THEN [outcome |-> "AttributeError"]
    ELSE LET winning_trades == {k \in 1..Len(trs) : trs[k].pnl > 0}
             losing_trades == {k \in 1..Len(trs) : trs[k].pnl < 0}
             wins == Cardinality(winning_trades)
             losses == Cardinality(losing_trades)
         IN  [outcome |-> "returned",
              metrics |->
                [total_trades |-> Len(trs),
                 winning_trades |-> wins,
                 losing_trades |-> losses,
                 win_rate |-> Frac(wins, Len(trs)),
                 total_pnl |-> SumPnl(trs, 1..Len(trs)),
                 average_win |-> IF wins > 0 THEN Frac(SumPnl(trs, winning_trades), wins)
                                 ELSE Frac(0, 1),
                 average_loss |-> IF losses > 0
                                  THEN Frac(SumPnl(trs, losing_trades), losses)
                                  ELSE Frac(0, 1)]]

Strategy ==
    [position |-> s_position, trades |-> s_trades, current_capital |-> current_capital,
     price_history |-> price_history, entry_price |-> entry_price]

----------------------------------------------------------------------------
(* Initial states *)

StrategyFresh ==
    /\ current_capital = StrategyInit.current_capital
    /\ s_position = StrategyInit.position
    /\ s_trades = StrategyInit.trades
    /\ price_history = StrategyInit.price_history
    /\ entry_price = StrategyInit.entry_price

BacktesterFresh(ic, comm) ==
    /\ initial_capital = ic
    /\ commission = comm
    /\ capital = reset(ic).capital
    /\ position = reset(ic).position
    /\ trades = reset(ic).trades
    /\ equity_curve = reset(ic).equity_curve

NoRun ==
    /\ data = <<>>
    /\ fast_period = 0
    /\ slow_period = 0
    /\ results = NoResults
    /\ replay = NoResults

\* a SimpleBacktester a caller constructs and calls directly
InitCalls ==
    /\ pc = "calls"
    /\ \E ic \in InitialCapitals, comm \in Commissions : BacktesterFresh(ic, comm)
    /\ NoRun
    /\ StrategyFresh

\* run_sma_crossover_backtest(data, fast_period, slow_period) at the head of its loop
InitRun ==
    /\ pc = "loop"
    /\ BacktesterFresh(RunInitialCapital * MoneyScale, RunCommission)
    /\ data \in BarSeqs
    /\ \E pp \in PeriodPairs : fast_period = pp[1] /\ slow_period = pp[2]
    /\ results = NoResults
    /\ replay = NoResults
    /\ StrategyFresh

\* a MeanReversionStrategy as its constructor leaves it
InitStrategy ==
    /\ pc = "strategy"
    /\ BacktesterFresh(0, 0)
    /\ NoRun
    /\ StrategyFresh

\* a strategy whose buy and sell are called directly
InitBase ==
    /\ pc = "base"
    /\ BacktesterFresh(0, 0)
    /\ NoRun
    /\ StrategyFresh

Init ==
    /\ call = NoCall
    /\ idx = 1
    /\ \/ InitCalls
       \/ InitRun
       \/ InitStrategy
       \/ InitBase

----------------------------------------------------------------------------
(* Actions *)

\* a direct call backtester.execute_trade(price, shares, idx)
ExecuteTrade(price, shares) ==
    /\ pc = "calls"
    /\ idx <= MaxCalls
    /\ LET after == execute_trade(Account, commission, price, shares, idx)
       IN  /\ capital' = after.capital
           /\ position' = after.position
           /\ trades' = after.trades
           /\ call' = CallRecord(price, shares, idx, Account, after, equity_curve)
    /\ idx' = idx + 1
    /\ UNCHANGED <<pc, initial_capital, commission, equity_curve, run_vars, strat_vars>>

\* one iteration of the loop of run_sma_crossover_backtest over row idx
ProcessBar ==
    /\ pc = "loop"
    /\ idx <= Len(data)
    /\ LET close == data[idx]
           order == OrderOnBar(Account, data, fast_period, slow_period, idx)
           after == IF order[1]
                    THEN execute_trade(Account, commission, close, order[2], idx)
                    ELSE Account
       IN  /\ capital' = after.capital
           /\ position' = after.position
           /\ trades' = after.trades
           /\ call' = IF order[1]
                      THEN CallRecord(close, order[2], idx, Account, after, equity_curve)
                      ELSE call
           /\ equity_curve' = TrackEquity(equity_curve, after, close, idx)
    /\ idx' = idx + 1
    /\ UNCHANGED <<pc, initial_capital, commission, run_vars, strat_vars>>

\* the metrics and the return of run_sma_crossover_backtest
Finish ==
    /\ pc = "loop"
    /\ idx > Len(data)
    /\ results' = Metrics(initial_capital, trades, equity_curve)
    /\ pc' = "done"
    /\ UNCHANGED <<bt_vars, call, data, fast_period, slow_period, replay, idx, strat_vars>>

ResetRecord ==
    [op |-> "reset", initial_capital |-> initial_capital, commission |-> commission,
     pre |-> Snapshot(Account, equity_curve)]

\* reset() that leaves the trade log in place
ResetKeepsTrades ==
    /\ pc = "calls"
    /\ idx > 1
    /\ capital' = reset(initial_capital).capital
    /\ position' = reset(initial_capital).position
    /\ equity_curve' = reset(initial_capital).equity_curve
    /\ call' = ResetRecord
    /\ idx' = 1
    /\ UNCHANGED <<pc, initial_capital, commission, trades, run_vars, strat_vars>>

\* a direct call backtester.reset() after some execute_trade calls
Reset ==
    /\ pc = "calls"
    /\ idx > 1
    /\ capital' = reset(initial_capital).capital
    /\ position' = reset(initial_capital).position
    /\ trades' = reset(initial_capital).trades
    /\ equity_curve' = reset(initial_capital).equity_curve
    /\ call' = ResetRecord
    /\ idx' = 1
    /\ UNCHANGED <<pc, initial_capital, commission, run_vars, strat_vars>>

\* run_sma_crossover_backtest called once more with the same data and periods: the
\* backtester it constructs is put in its initial state by reset()
Rerun ==
    /\ pc = "done"
    /\ ~replay.returned
    /\ replay' = results
    /\ results' = NoResults
    /\ capital' = reset(initial_capital).capital
    /\ position' = reset(initial_capital).position
    /\ trades' = reset(initial_capital).trades
    /\ equity_curve' = reset(initial_capital).equity_curve
    /\ call' = ResetRecord
    /\ idx' = 1
    /\ pc' = "loop"
    /\ UNCHANGED <<initial_capital, commission, data, fast_period, slow_period, strat_vars>>

\* the owner of the strategy funds it: strategy.current_capital = c, before the first bar
SetCurrentCapital(c) ==
    /\ pc = "strategy"
    /\ price_history = <<>>
    /\ current_capital = StrategyInit.current_capital
    /\ current_capital' = c
    /\ UNCHANGED <<pc, bt_vars, call, run_vars, idx, s_position, s_trades,
                   price_history, entry_price>>

\* strategy.get_metrics()
GetMetrics ==
    /\ pc = "strategy"
    /\ call' = [op |-> "get_metrics"] @@ get_metrics(s_trades)
    /\ UNCHANGED <<pc, bt_vars, run_vars, idx, strat_vars>>

\* a direct call strategy.buy(size)
Buy(size) ==
    /\ pc = "base"
    /\ idx <= MaxCalls
    /\ s_position' = buy(s_position, size)
    /\ call' = [op |-> "buy", size |-> size, pre |-> s_position,
                post |-> buy(s_position, size)]
    /\ idx' = idx + 1
    /\ UNCHANGED <<pc, bt_vars, run_vars, current_capital, s_trades, price_history,
                   entry_price>>

\* a direct call strategy.sell(size), or strategy.sell() when size is None
Sell(size) ==
    /\ pc = "base"
    /\ idx <= MaxCalls
    /\ s_position' = sell(s_position, size)
    /\ call' = [op |-> "sell", size |-> size, pre |-> s_position,
                post |-> sell(s_position, size)]
    /\ idx' = idx + 1
    /\ UNCHANGED <<pc, bt_vars, run_vars, current_capital, s_trades, price_history,
                   entry_price>>

\* strategy.on_data({'close': close_price})
OnData(close_price) ==
    /\ pc = "strategy"
    /\ Len(price_history) < MaxStratBars
    /\ LET after == on_data(Strategy, RsiPeriod, close_price)
       IN  /\ s_position' = after.position
           /\ s_trades' = after.trades
           /\ price_history' = after.price_history
           /\ entry_price' = after.entry_price
           /\ call' = [op |-> "on_data", close |-> close_price, outcome |-> "returned",
                       pre |-> Strategy, post |-> after]
    /\ UNCHANGED <<pc, bt_vars, run_vars, idx, current_capital>>

Next ==
    \/ \E price \in Prices, shares \in ShareCounts : ExecuteTrade(price, shares)
    \/ ProcessBar
    \/ Finish
    \/ Reset
    \/ Rerun
    \/ \E c \in StratCapitals : SetCurrentCapital(c)
    \/ \E close_price \in StratCloses : OnData(close_price)
    \/ GetMetrics
    \/ \E size \in Sizes : Buy(size)
    \/ \E size \in Sizes \cup {None} : Sell(size)

Spec == Init /\ [][Next]_vars

----------------------------------------------------------------------------
(* The ledger: claims C1 - C4 *)

InRun == pc \in {"loop", "done"}
IsTradeCall == call.op = "execute_trade"
Filled(c) == Len(c.post.trades) = Len(c.pre.trades) + 1

\* C1: with initial_capital >= 0, 0 <= commission <= 1 and prices >= 0, capital is
\* never negative, after every direct execute_trade call and after every bar of the run.
C1_CapitalNonNegative ==
    /\ capital >= 0
    /\ IsTradeCall => call.post.capital >= 0

\* C1 witness: a direct buy was filled and left less cash than the same buy needs.
C1_Witness ==
    /\ pc = "calls"
    /\ IsTradeCall /\ call.shares > 0 /\ call.price > 0 /\ Filled(call)
    /\ capital < Cost(call.price, call.shares)

\* C2: position is never negative, after every direct execute_trade call and after
\* every bar of the run: no sell takes the position below zero.
C2_PositionNonNegative ==
    /\ position >= 0
    /\ IsTradeCall => call.post.position >= 0

\* C2 witness: a sell of the whole position was filled and left it at zero.
C2_Witness ==
    /\ IsTradeCall /\ call.shares < 0 /\ call.price > 0 /\ Filled(call)
    /\ call.pre.position > 0 /\ position = 0

\* the orders the claim calls rejected
OversizedBuy(c) ==
    c.shares > 0 /\ c.shares * c.price * (MoneyScale + commission) > c.pre.capital
OversizedSell(c) == c.shares < 0 /\ 0 - c.shares > c.pre.position

\* C3: a buy whose shares*price*(1+commission) exceeds capital, or a sell whose size
\* exceeds position, leaves capital, position, trades and equity_curve as they were.
C3_RejectedOrderChangesNothing ==
    (IsTradeCall /\ (OversizedBuy(call) \/ OversizedSell(call)))
        => /\ call.post = call.pre
           /\ pc = "calls" =>
                Snapshot(Account, equity_curve) = call.pre

\* C3 witness: a sell of more shares than the (non-empty) position held.
C3_Witness ==
    /\ IsTradeCall /\ OversizedSell(call) /\ call.pre.position > 0
    /\ call.price > 0 /\ trades[1].price > 0

\* a record reconciles with price, size and commission rate
Reconciles(t) ==
    IF t.type = "BUY"
    THEN t.cost = t.shares * t.price * (MoneyScale + commission)
    ELSE t.type = "SELL" /\ t.proceeds = t.shares * t.price * (MoneyScale - commission)

\* the account change of call c is exactly that of the one record it appended
OneRecordOneChange(c) ==
    LET t == Last(c.post.trades)
    IN  /\ c.post.trades = Append(c.pre.trades, t)
        /\ t.price = c.price /\ t.timestamp = c.timestamp /\ t.shares = Abs(c.shares)
        /\ Reconciles(t)
        /\ IF c.shares > 0
           THEN /\ t.type = "BUY"
                /\ c.post.capital = c.pre.capital - t.cost
                /\ c.post.position = c.pre.position + t.shares
           ELSE /\ t.type = "SELL"
                /\ c.post.capital = c.pre.capital + t.proceeds
                /\ c.post.position = c.pre.position - t.shares

\* C4: every record of trades has cost = shares*price*(1+commission) (BUY) or
\* proceeds = shares*price*(1-commission) (SELL); an order that is not oversized is
\* filled, appends exactly one record and moves capital and position by exactly the
\* record's amounts.
C4_TradeReconciles ==
    /\ \A k \in 1..Len(trades) : Reconciles(trades[k])
    /\ (IsTradeCall /\ ~OversizedBuy(call) /\ ~OversizedSell(call))
          => OneRecordOneChange(call)
    /\ (IsTradeCall /\ call.post.trades # call.pre.trades) => OneRecordOneChange(call)

\* C4 witness: a SELL record with a commission taken, after a BUY record.
C4_Witness ==
    /\ Len(trades) >= 2
    /\ Last(trades).type = "SELL" /\ trades[1].type = "BUY"
    /\ Last(trades).shares > 0 /\ Last(trades).price > 0
    /\ commission > 0 /\ commission < MoneyScale
    /\ IsTradeCall /\ call.shares < 0 /\ Filled(call)

----------------------------------------------------------------------------
(* The driver: claims C5 - C8 *)

\* capital and position after row k, recomputed from the trade log
RECURSIVE CapitalFromLog(_, _, _)
CapitalFromLog(trs, n, k) ==
    IF n = 0 THEN initial_capital
    ELSE LET t == trs[n]
             rest == CapitalFromLog(trs, n - 1, k)
         IN  IF t.timestamp > k THEN rest
             ELSE IF t.type = "BUY" THEN rest - t.cost ELSE rest + t.proceeds

RECURSIVE PositionFromLog(_, _, _)
PositionFromLog(trs, n, k) ==
    IF n = 0 THEN 0
    ELSE LET t == trs[n]
             rest == PositionFromLog(trs, n - 1, k)
         IN  IF t.timestamp > k THEN rest
             ELSE IF t.type = "BUY" THEN rest + t.shares ELSE rest - t.shares

\* C5: the run appends exactly one equity point per bar, in bar order, traded or not;
\* the point of bar k is capital + position * close_k after bar k's order, and the
\* curve is as long as the data when the run returns.
C5_OneEquityPointPerBar ==
    InRun =>
        /\ Len(equity_curve) = idx - 1
        /\ pc = "done" => Len(equity_curve) = Len(data)
        /\ \A k \in 1..Len(equity_curve) :
              /\ equity_curve[k].timestamp = k
              /\ equity_curve[k].value =
                    CapitalFromLog(trades, Len(trades), k)
                    + PositionFromLog(trades, Len(trades), k) * data[k] * MoneyScale

\* C5 witness: a finished run whose curve holds a bar with a trade, a later bar
\* without one while a position is held, and a bar at which the account was flat.
C5_Witness ==
    /\ pc = "done" /\ Len(data) = MaxBars
    /\ \E k \in 1..Len(trades) : trades[k].timestamp < Len(data) /\ trades[k].type = "BUY"
    /\ \A k \in 1..Len(trades) : trades[k].timestamp # Len(data)
    /\ position > 0
    /\ Last(equity_curve).value # capital

\* the entry a SELL closes: the last BUY before it in the log
RECURSIVE EntryOf(_, _)
EntryOf(trs, k) ==
    IF k = 0 THEN 0 ELSE IF trs[k].type = "BUY" THEN k ELSE EntryOf(trs, k - 1)

Sells(trs) == {k \in 1..Len(trs) : trs[k].type = "SELL"}
WinningSells(trs) ==
    {k \in Sells(trs) : EntryOf(trs, k) > 0 /\ trs[k].proceeds > trs[EntryOf(trs, k)].cost}

\* C6: win_rate = (SELLs whose proceeds exceed the cost of their entry BUY) / (SELLs),
\* 0 without a SELL; one BUY then one SELL with higher proceeds gives win_rate 1.
C6_WinRateCountsWinningSells ==
    pc = "done" =>
        IF Sells(trades) = {}
        THEN results.win_rate.num = 0
        ELSE results.win_rate.num * Cardinality(Sells(trades))
                = Cardinality(WinningSells(trades)) * results.win_rate.den

\* C7: a BUY is executed only while flat, so the log alternates BUY, SELL, BUY, ...
\* starting with a BUY.
C7_BuyOnlyWhileFlat ==
    InRun =>
        /\ \A k \in 1..Len(trades) :
              trades[k].type = (IF k % 2 = 1 THEN "BUY" ELSE "SELL")
        /\ (IsTradeCall /\ call.shares > 0) => call.pre.position = 0

\* C8: a BUY is recorded on a bar only if its signal is +1 and the previous bar's was
\* not; a SELL only if its signal is -1 and the previous bar's was not; a bar whose
\* signal is 0 produces no trade.
C8_TradesOnlyOnCrossings ==
    InRun =>
        \A k \in 1..Len(trades) :
            LET i == trades[k].timestamp
                now == Signal(data, fast_period, slow_period, i)
                prev == IF i > 1 THEN Signal(data, fast_period, slow_period, i - 1) ELSE 0
            IN  /\ now # 0
                /\ trades[k].type = "BUY" => (now = 1 /\ prev # 1)
                /\ trades[k].type = "SELL" => (now = 0 - 1 /\ prev # 0 - 1)

----------------------------------------------------------------------------
(* The mean-reversion strategy: claims C9, C10 *)

IsOnData == call.op = "on_data"

\* every bar fed so far has close > 0
WellFormed(h) == \A k \in 1..Len(h) : h[k] > 0

\* the RSI is evaluated on bar n and is below oversold / above overbought
Dip(h, n) == n >= RsiPeriod + 1 /\ RsiBelow(RsiAt(h, RsiPeriod, n), rsi_oversold)
Rise(h, n) == n >= RsiPeriod + 1 /\ RsiAbove(RsiAt(h, RsiPeriod, n), rsi_overbought)

HasDip(h) == \E n \in 1..Len(h) : Dip(h, n)
FirstDip(h) == CHOOSE n \in 1..Len(h) : Dip(h, n) /\ \A m \in 1..(n - 1) : ~Dip(h, m)

\* between the first dip and bar n (exclusive of the dip) the RSI has not risen above
\* overbought and no close has fallen through the stop
Quiet(h, n) ==
    \A m \in (FirstDip(h) + 1)..n :
        ~Rise(h, m) /\ ~StopLossHit(h[m], h[FirstDip(h)])

\* C9: for a strategy as its constructor leaves it, bars whose RSI first falls below
\* rsi_oversold and later rises above rsi_overbought take it FLAT -> LONG -> FLAT:
\* position > 0 from the dip until the rise, then position 0 and exactly one
\* completed-trade record.
C9_DipThenRiseIsOneRoundTrip ==
    (pc = "strategy" /\ current_capital = StrategyInit.current_capital
        /\ WellFormed(price_history) /\ HasDip(price_history))
    => LET h == price_history
           n == Len(h)
       IN  /\ Quiet(h, n) => (s_position > 0 /\ s_trades = <<>>)
           /\ (n > FirstDip(h) /\ Rise(h, n) /\ Quiet(h, n - 1))
                 => (s_position = 0 /\ Len(s_trades) = 1)

\* C10: on every LONG -> FLAT transition of on_data the record appended has
\* pnl = (exit_price - entry_price) * size, size being the position held before the
\* exit, and entry_price is None afterwards.
C10_ExitRecordsPnl ==
    (IsOnData /\ WellFormed(call.post.price_history)
        /\ call.pre.position > 0 /\ call.post.position = 0)
    => /\ Len(call.post.trades) = Len(call.pre.trades) + 1
       /\ Last(call.post.trades).pnl
             = (call.close - call.pre.entry_price) * call.pre.position
       /\ call.post.entry_price = None

----------------------------------------------------------------------------
(* Analytics: claim C11 *)

\* max(equity[0..i]), as the greatest of the first i values
PeakUpTo(curve, i) ==
    CHOOSE m \in {curve[j].value : j \in 1..i} : \A j \in 1..i : curve[j].value <= m

DrawdownAt(curve, i) == Frac(curve[i].value - PeakUpTo(curve, i), PeakUpTo(curve, i))

NonDecreasing(curve) == \A i \in 1..(Len(curve) - 1) : curve[i].value <= curve[i + 1].value

\* C11: max_drawdown is the minimum over i of (equity[i] - max(equity[0..i])) /
\* max(equity[0..i]); it is <= 0, and exactly 0 when the equity series never falls.
C11_MaxDrawdownIsMinimum ==
    pc = "done" =>
        LET dd == results.max_drawdown
            curve == results.equity_curve
        IN  /\ curve = equity_curve
            /\ \E i \in 1..Len(curve) :
                  ~FracLess(dd, DrawdownAt(curve, i)) /\ ~FracLess(DrawdownAt(curve, i), dd)
            /\ \A i \in 1..Len(curve) : ~FracLess(DrawdownAt(curve, i), dd)
            /\ dd.den > 0 /\ dd.num <= 0
            /\ NonDecreasing(curve) => dd.num = 0

\* C11 witness: the deepest drawdown is measured from a peak above the initial
\* capital, and an earlier, shallower drawdown (the commission of the buy) exists.
C11_Witness ==
    /\ pc = "done"
    /\ results.max_drawdown.num < 0
    /\ results.max_drawdown.den > initial_capital
    /\ \E i \in 1..Len(equity_curve) :
          /\ DrawdownAt(equity_curve, i).num < 0
          /\ FracLess(results.max_drawdown, DrawdownAt(equity_curve, i))

----------------------------------------------------------------------------
(* No state survives a reset: claim C12 *)

\* C12: reset() puts a used backtester in exactly the state of a fresh one (capital =
\* initial_capital, position 0, no trades, no equity points, initial_capital and
\* commission as they were), and a run replayed over the same data and periods returns
\* the same trade log and equity series.
C12_ResetIsFresh ==
    /\ (call.op = "reset" /\ idx = 1)
          => /\ Snapshot(Account, equity_curve)
                  = [capital |-> initial_capital, position |-> 0,
                     trades |-> <<>>, equity_curve |-> <<>>]
             /\ initial_capital = call.initial_capital
             /\ commission = call.commission
    /\ (pc = "done" /\ replay.returned)
          => /\ results.trades = replay.trades
             /\ results.equity_curve = replay.equity_curve

\* C12 witness: a replayed run that traded, after a first run that ended with an
\* equity other than the initial capital.
C12_Witness ==
    /\ pc = "done" /\ replay.returned
    /\ Len(results.trades) >= 2
    /\ Last(replay.equity_curve).value # initial_capital

----------------------------------------------------------------------------
(* Malformed input: claim C13 *)

\* C13: a bar with close <= 0 is fatal: the call that receives it ends in an error,
\* nothing is produced from that bar, and no later bar is processed.
C13_MalformedBarIsFatal ==
    /\ (IsOnData /\ call.close <= 0)
          => /\ call.outcome = "error"
             /\ call.post = call.pre
    /\ pc = "strategy" =>
          \A k \in 1..Len(price_history) :
              price_history[k] <= 0 => k = Len(price_history)

----------------------------------------------------------------------------
(* The strategy-side account: claim C14 *)

\* C14: for any sequence of buy(size) and sell(size) calls with size > 0 (and sell()
\* with no size), position >= 0 after every call; a sell of more than the position
\* is rejected and leaves the position unchanged.
C14_StrategyLongOnly ==
    pc = "base" =>
        /\ s_position >= 0
        /\ (call.op = "sell" /\ call.size # None /\ call.size > call.pre)
              => call.post = call.pre

----------------------------------------------------------------------------
(* The transition table of on_data: claim C15 *)

\* C15: once rsi_period+1 closes have been seen, a flat strategy changes its position
\* only if RSI < rsi_oversold; a long one goes to 0 if and only if RSI > rsi_overbought
\* or close < 0.95 * entry_price, and is otherwise unchanged; a bar on which the
\* strategy enters does not also exit.
C15_TransitionTable ==
    (IsOnData /\ Len(call.post.price_history) >= RsiPeriod + 1)
    => LET pre == call.pre
           post == call.post
           h == post.price_history
           n == Len(h)
       IN  /\ pre.position = 0 =>
                 /\ post.position # pre.position => Dip(h, n)
                 /\ post.trades = pre.trades
           /\ pre.position > 0 =>
                 /\ post.position = 0
                       <=> (Rise(h, n) \/ 100 * call.close < 95 * pre.entry_price)
                 /\ post.position \in {0, pre.position}

\* C15 witness: a long strategy is stopped out on well-formed bars while the RSI is
\* not above rsi_overbought.
C15_Witness ==
    /\ IsOnData /\ WellFormed(price_history)
    /\ call.pre.position > 0 /\ call.post.position = 0
    /\ ~Rise(price_history, Len(price_history))

----------------------------------------------------------------------------
(* Insufficient history: claim C16 *)

\* C16: each of the first rsi_period bars given to on_data only appends its close to
\* price_history: position, entry_price and trades are unchanged and the call returns
\* normally; the run executes no trade on a bar whose slow SMA is still undefined.
C16_SilentAbstention ==
    /\ (IsOnData /\ Len(call.pre.price_history) < RsiPeriod)
          => /\ call.post = [call.pre EXCEPT !.price_history = Append(@, call.close)]
             /\ call.outcome = "returned"
    /\ InRun => \A k \in 1..Len(trades) : trades[k].timestamp >= slow_period

\* C16 witness: a funded strategy has seen exactly rsi_period closes, the last one
\* lower than the one before, and has done nothing.
C16_Witness ==
    /\ IsOnData /\ current_capital > 0
    /\ Len(price_history) = RsiPeriod
    /\ price_history[RsiPeriod] > 0
    /\ price_history[RsiPeriod] < price_history[RsiPeriod - 1]
    /\ s_position = 0 /\ entry_price = None

----------------------------------------------------------------------------
(* Analytics of the strategy: claim C17 *)

\* C17: get_metrics returns a metrics record computed from the pnl of the records
\* _record_trade appended, without ending in an error; with no recorded trades it
\* returns total_trades = 0.
C17_MetricsAcceptRecordedTrades ==
    call.op = "get_metrics" =>
        /\ call.outcome = "returned"
        /\ call.metrics.total_trades = Len(s_trades)
        /\ s_trades # <<>> =>
              /\ call.metrics.total_pnl = SumPnl(s_trades, 1..Len(s_trades))
              /\ call.metrics.winning_trades
                    = Cardinality({k \in 1..Len(s_trades) : s_trades[k].pnl > 0})

----------------------------------------------------------------------------
(* Implicit properties: claims C18 - C20 *)

\* C18: in the run (commission 0.001, close > 0) every order the driver submits is
\* filled: a buy of floor(0.5 * capital / close) > 0 shares costs no more than the
\* capital, a sell is for exactly the position and leaves it at 0; each execute_trade
\* call of the driver appends exactly one trade.
C18_DriverOrdersAlwaysFill ==
    (InRun /\ IsTradeCall /\ call.price > 0)
    => /\ Len(call.post.trades) = Len(call.pre.trades) + 1
       /\ call.shares # 0
       /\ call.shares > 0 =>
             /\ 2 * call.shares * call.price * MoneyScale <= call.pre.capital
             /\ call.shares * call.price * (MoneyScale + commission) <= call.pre.capital
             /\ call.post.position = call.pre.position + call.shares
       /\ call.shares < 0 =>
             /\ 0 - call.shares = call.pre.position
             /\ call.post.position = 0

\* C18 witness: the driver has bought and later sold the whole position.
C18_Witness ==
    /\ InRun /\ IsTradeCall /\ call.shares < 0 /\ call.price > 0
    /\ Len(trades) >= 2 /\ trades[1].type = "BUY" /\ Last(trades).type = "SELL"
    /\ position = 0

\* the portfolio value of a snapshot, marked at price p
ValueAt(snap, p) == get_portfolio_value(snap.capital, snap.position, p)

\* C19: trading never creates value: across every execute_trade(price, shares, t) call
\* (price >= 0, commission >= 0) the portfolio value marked at the trade price drops by
\* exactly |shares| * price * commission when the order is filled, is unchanged when
\* it is rejected, and so never increases.
C19_TradingNeverCreatesValue ==
    IsTradeCall =>
       LET value_before == ValueAt(call.pre, call.price)
           value_after == ValueAt(call.post, call.price)
       IN  /\ Filled(call)
                => value_after = value_before - Abs(call.shares * call.price) * commission
           /\ ~Filled(call) => value_after = value_before
           /\ value_after <= value_before

\* C19 witness: a filled buy on top of an open position, with a commission charged.
C19_Witness ==
    /\ IsTradeCall /\ Filled(call)
    /\ call.shares > 0 /\ call.price > 0 /\ commission > 0
    /\ call.pre.position > 0
    /\ ValueAt(call.post, call.price) < ValueAt(call.pre, call.price)

\* C20: after every on_data call, entry_price is not None if and only if
\* position > 0 (FLAT has no entry price, LONG always has one).
C20_EntryPriceTracksPosition ==
    (IsOnData /\ WellFormed(call.post.price_history))
    => (call.post.entry_price # None <=> call.post.position > 0)

====
